---- MODULE Spec2Model ----
(***************************************************************************)
(* A model of the HX711 driver (src/src/HX711.cpp) and of the scale built  *)
(* on it (AbstractScale, src/unnamed/part_000).                            *)
(*                                                                         *)
(* Threads: the detached watcher "w" (HX711::_watchPin), one calling       *)
(* thread "c" that runs begin, setConfig, powerDown, powerUp, testTiming,  *)
(* the format setters and the destructor one after the other, and the      *)
(* getValue callers "r1", "r2", ... which run concurrently with both.      *)
(* The chip on the two GPIO lines is the environment.                      *)
(***************************************************************************)
EXTENDS Integers, Sequences, FiniteSets, TLC

\* ------------------------------------------------------------------ bounds

\* number of concurrent getValue callers
NReaders == 2

\* largest sample count passed to testTiming
MaxTiming == 1

\* inputs of the decode check lie within this distance of 0, of the two
\* ends of the 24-bit range and of each power of two
DecodeSpread == 2

\* largest sample count passed to read, weight and zero
MaxSamples == 3

\* zero calls that succeed in one behaviour
MaxZeros == 2

\* ------------------------------------------------- constants of the driver
\* (declared in the driver's header; their values are those the
\* specification gives)

HX_MIN_VALUE == -(2^23)

HX_MAX_VALUE == 2^23 - 1

_BYTES_PER_CONVERSION_PERIOD == 3

Channels == {"A", "B"}

Gains == {128, 32, 64}

Formats == {"MSB", "LSB"}

\* total clock pulses of one transaction, by gain
PULSES(g) == CASE g = 128 -> 25 [] g = 32 -> 25 [] g = 64 -> 27

\* ------------------------------------------------------------ pure helpers

RECURSIVE BitAnd(_, _)
\* a & b on non-negative integers
BitAnd(a, b) ==
    IF a = 0 \/ b = 0 THEN 0
    ELSE (a % 2) * (b % 2) + 2 * BitAnd(a \div 2, b \div 2)

\* bit i of the field f
Bit(f, i) == (f \div (2^i)) % 2

\* a mutant of _convertFromTwosComplement: the sign mask is one bit too low
ConvertWrongMask(val) == -(BitAnd(val, 4194304)) + BitAnd(val, 8388607)

_convertFromTwosComplement(val) == -(BitAnd(val, 8388608)) + BitAnd(val, 8388607)

_isSaturated(v) == v = HX_MIN_VALUE \/ v = HX_MAX_VALUE

\* the 24-bit two's-complement field the chip shifts out for the value n
Encode24(n) == IF n < 0 THEN n + 2^24 ELSE n

\* the int _readInt builds from the three bytes
FieldOf(b) == b[1] * 65536 + b[2] * 256 + b[3]

ValidPair(c, g) == ~(c = "A" /\ g = 32) /\ ~(c = "B" /\ g # 32)

\* ----------------------------------------------------------------- threads

Readers == {"r" \o ToString(i) : i \in 1..NReaders}

BusThreads == {"w", "c"}

Threads == BusThreads \cup Readers

\* the values the load cell presents to the converter
Samples == {HX_MIN_VALUE, HX_MAX_VALUE, 1500}

VARIABLES
    gpio, watchState, lastVal, channel, gain, bitFormat, byteFormat,
    commLock, readyLock,
    clock, chipOn, chipReady, chipVal, chipPos,
    chipPulses, lateIO,
    pc, stack, tx, bytes,
    arg, backup, ttLeft, cop, cres, pre,
    cause, rres, pubDuring, rpub, lastPub,
    probe,
    _massUnit, _refUnit, _offset,
    spc, scall, vals, asked, sres, zlog

driverVars == <<gpio, watchState, lastVal, channel, gain, bitFormat, byteFormat>>

lockVars == <<commLock, readyLock>>

chipVars == <<clock, chipOn, chipReady, chipVal, chipPos>>

\* chipPulses: the clock pulses of the last transaction that ended on the
\* open bus since the chip was last reset (the 25 of the reset default,
\* channel A at gain 128, if none); lateIO: the watcher has read the data line
\* or written the clock line after ~HX711 released the pins
busVars == <<chipPulses, lateIO>>

callVars == <<arg, backup, ttLeft, cop, cres, pre>>

readerVars == <<cause, rres, pubDuring, rpub>>

\* the scale: its three members; the position of the call in progress, its
\* arguments and the state it found (scall), the samples collected (vals),
\* the number of samples asked of the source (asked), the outcome of the
\* last call (sres), the zero calls that have succeeded and the last of them (zlog)
scaleVars == <<_massUnit, _refUnit, _offset, spc, scall, vals, asked, sres, zlog>>

vars == <<gpio, watchState, lastVal, channel, gain, bitFormat, byteFormat,
          commLock, readyLock, clock, chipOn, chipReady, chipVal, chipPos,
          chipPulses, lateIO,
          pc, stack, tx, bytes, arg, backup, ttLeft, cop, cres, pre,
          cause, rres, pubDuring, rpub, lastPub, probe, scaleVars>>

\* the locals of _readRawBytes/_readByte outside a transaction
\* (out: the caller passed a byte array; pulses, data: the clock pulses and
\* the data pulses of the transaction so far; g: the gain it read)
TxIdle == [out |-> FALSE, i |-> 0, raw |-> <<>>, need |-> 0, k |-> 0,
           pulses |-> 0, data |-> 0, g |-> 128]

NoResult == [k |-> "none", v |-> 0]

NoPub == [has |-> FALSE, v |-> 0]

ProbeIdle == [stage |-> "off", from |-> "n", n |-> 0, f |-> 0, v |-> 0]

\* the state after HX711::HX711
InitDriver ==
    /\ gpio = "none"
    /\ watchState = "NONE"
    /\ lastVal = HX_MAX_VALUE
    /\ channel = "A"
    /\ gain = 128
    /\ bitFormat = "MSB"
    /\ byteFormat = "MSB"
    /\ commLock = "free"
    /\ readyLock = "free"
    /\ clock = 0
    /\ chipOn = TRUE
    /\ chipReady = FALSE
    /\ chipVal = 0
    /\ chipPos = 0
    /\ chipPulses = PULSES(128)
    /\ lateIO = FALSE
    /\ pc = [t \in Threads |-> IF t = "w" THEN "w_none" ELSE IF t = "c" THEN "new" ELSE "idle"]
    /\ stack = [t \in BusThreads |-> <<>>]
    /\ tx = [t \in BusThreads |-> TxIdle]
    /\ bytes = [t \in BusThreads |-> <<0, 0, 0>>]
    /\ arg = [c |-> "A", g |-> 128]
    /\ backup = [c |-> "A", g |-> 128]
    /\ ttLeft = 0
    /\ cop = "none"
    /\ cres = "none"
    /\ pre = [c |-> "A", g |-> 128]
    /\ cause = [r \in Readers |-> "none"]
    /\ rres = [r \in Readers |-> NoResult]
    /\ pubDuring = [r \in Readers |-> FALSE]
    /\ rpub = [r \in Readers |-> NoPub]
    /\ lastPub = NoPub

\* no call of the scale yet
NoScaleCall ==
    [op |-> "none", rt |-> "Median", n |-> 0, backup |-> 1,
     unit |-> "g", ref |-> 1, off |-> 0]

\* no zero call has succeeded yet (agg: the aggregate of its samples; before,
\* after: _offset before and after it)
NoZero == [count |-> 0, agg |-> [num |-> 0, den |-> 1], before |-> 0, after |-> 0]

NoScaleResult == [k |-> "none", num |-> 0, den |-> 1]

\* the members of a scale and no call in progress
ScaleAt(u, r, o) ==
    /\ _massUnit = u
    /\ _refUnit = r
    /\ _offset = o
    /\ spc = "idle"
    /\ scall = NoScaleCall
    /\ vals = <<>>
    /\ asked = 0
    /\ sres = NoScaleResult
    /\ zlog = NoZero

Init == InitDriver /\ probe = ProbeIdle /\ ScaleAt("g", 1, 0)

\* ------------------------------------------------------ the chip, the lines

\* the level of the data line as lgGpioRead reports it outside a clock pulse:
\* high while the chip is powered down or converting, low once a conversion
\* is ready, the last bit shifted out during a transaction
DOUT ==
    IF ~chipOn \/ ~chipReady THEN 1
    ELSE IF chipPos = 0 THEN 0
    ELSE Bit(chipVal, 24 - chipPos)

\* HX711::isReady: lgGpioRead(...) == 0; a released handle reads as an error
isReady == gpio = "open" /\ DOUT = 0

\* the chip as _readBit sees it
Chip == [on |-> chipOn, ready |-> chipReady, pos |-> chipPos]

\* (the output register is of no account once the chip is not ready)
SetChip(c) ==
    /\ chipOn' = c.on
    /\ chipReady' = c.ready
    /\ chipPos' = c.pos
    /\ chipVal' = IF c.ready THEN chipVal ELSE 0

\* the value of "lgGpioRead(...) == 1" in _readBit, read while the clock is
\* high: the next bit of the field, most significant first; the 25th pulse
\* pulls the data line back to high; a released handle reads as an error
BitIn(c) ==
    IF gpio # "open" THEN 0
    ELSE IF c.on /\ c.ready /\ c.pos < 24 THEN Bit(chipVal, 23 - c.pos)
    ELSE 1

\* the chip after one clock pulse (high, then low) of _readBit; a clock line
\* going low wakes a powered-down chip
AfterPulse(c) ==
    IF gpio # "open" THEN c
    ELSE IF c.on /\ c.ready
    THEN IF c.pos = 24 THEN [on |-> TRUE, ready |-> FALSE, pos |-> 0]
         ELSE [on |-> TRUE, ready |-> TRUE, pos |-> c.pos + 1]
    ELSE [on |-> TRUE, ready |-> FALSE, pos |-> 0]

\* the clock line after a write of level l
ClockWrite(l) == clock' = IF gpio = "open" THEN l ELSE clock

\* the lines after one _readBit
ClockPulse ==
    /\ SetChip(AfterPulse(Chip))
    /\ ClockWrite(0)

\* val <<= 1; val |= bit   or   val >>= 1; val |= bit * 0x80   on a uint8
ShiftBit(val, bit) ==
    IF bitFormat = "MSB" THEN ((val * 2) % 256) + bit
    ELSE (val \div 2) + bit * 128

RECURSIVE ReadBits(_, _, _)
\* n more turns of the loop of _readByte
ReadBits(n, val, c) ==
    IF n = 0 THEN [val |-> val, chip |-> c]
    ELSE ReadBits(n - 1, ShiftBit(val, BitIn(c)), AfterPulse(c))

\* HX711::_readByte: eight _readBit calls
_readByte(c) == ReadBits(8, 0, c)

\* the clock line driven low outside a pulse (powerDown, powerUp): a
\* powered-down chip resets and starts converting
ClockLow ==
    /\ ClockWrite(0)
    /\ IF gpio = "open" /\ ~chipOn
       THEN /\ SetChip([on |-> TRUE, ready |-> FALSE, pos |-> 0])
            /\ chipPulses' = PULSES(128)
       ELSE UNCHANGED <<chipOn, chipReady, chipVal, chipPos, chipPulses>>
    /\ lateIO' = lateIO

\* the clock line driven high and held for 60 microseconds: the chip powers down
ClockHighHold ==
    /\ ClockWrite(1)
    /\ IF gpio = "open"
       THEN SetChip([on |-> FALSE, ready |-> FALSE, pos |-> 0])
       ELSE UNCHANGED <<chipOn, chipReady, chipVal, chipPos>>
    /\ UNCHANGED busVars

\* the chip finishes a conversion and pulls the data line low; a conversion
\* period is far longer than a bus sequence, so none ends inside one
ChipConvert ==
    /\ chipOn /\ ~chipReady /\ commLock = "free"
    /\ \E s \in Samples : chipVal' = Encode24(s)
    /\ chipReady' = TRUE
    /\ chipPos' = 0
    /\ UNCHANGED <<clock, chipOn, busVars, driverVars, lockVars, pc, stack, tx, bytes,
                   callVars, readerVars, lastPub, probe, scaleVars>>

\* ------------------------------------------------------------ call, return

Goto(t, l) == pc' = [pc EXCEPT ![t] = l]

Return(t) ==
    /\ pc' = [pc EXCEPT ![t] = Head(stack[t])]
    /\ stack' = [stack EXCEPT ![t] = Tail(stack[t])]

Call(t, l, back) ==
    /\ pc' = [pc EXCEPT ![t] = l]
    /\ stack' = [stack EXCEPT ![t] = <<back>> \o stack[t]]

\* ------------------------------------------------------------ _readRawBytes

\* the locals of a call of _readRawBytes(bytes); out: bytes != nullptr
TxStart(out) == [TxIdle EXCEPT !.out = out]

\* what is kept of a transaction that has ended: its pulse counts, the gain
\* it read and the trailing pulses it computed
TxEnded(p, d, g, need) ==
    [TxIdle EXCEPT !.pulses = p, !.data = d, !.g = g, !.need = need]

\* std::unique_lock<std::mutex> communication(_commLock)
TxLock(t) ==
    /\ pc[t] = "tx_lock"
    /\ commLock = "free"
    /\ commLock' = t
    /\ Goto(t, "tx_byte")
    /\ UNCHANGED <<driverVars, readyLock, chipVars, busVars, stack, tx, bytes, callVars,
                   readerVars, lastPub, probe, scaleVars>>

\* a mutant of PulsesNeeded: one trailing pulse too few
PulsesNeededOneShort ==
    (PULSES(gain) - 8 * _BYTES_PER_CONVERSION_PERIOD - 1) % 256

\* pulsesNeeded = PULSES[_gain] - 8 * _BYTES_PER_CONVERSION_PERIOD, a uint8
PulsesNeeded == (PULSES(gain) - 8 * _BYTES_PER_CONVERSION_PERIOD) % 256

\* thread t reads the data line or writes the clock line
LineUse(t) == lateIO' = (lateIO \/ (t = "w" /\ gpio = "released"))

\* communication.unlock(), then the copy to the caller's bytes, first and
\* last byte swapped for the LSB byte format, and the return
TxFinish(t, raw) ==
    /\ commLock' = "free"
    /\ chipPulses' = IF gpio = "open" THEN tx'[t].pulses ELSE chipPulses
    /\ bytes' = IF ~tx[t].out THEN bytes
                ELSE [bytes EXCEPT ![t] =
                        IF byteFormat = "LSB" THEN <<raw[3], raw[2], raw[1]>>
                        ELSE raw]
    /\ Return(t)

\* raw[i] = _readByte(); after the last byte, the number of trailing pulses
\* is computed from the gain held at that moment
TxByte(t) ==
    /\ pc[t] = "tx_byte"
    /\ LET r == _readByte(Chip)
           last == tx[t].i + 1 = _BYTES_PER_CONVERSION_PERIOD
           raw == Append(tx[t].raw, r.val)
       IN /\ SetChip(r.chip)
          /\ ClockWrite(0)
          /\ IF ~last
             THEN /\ tx' = [tx EXCEPT ![t] =
                              [@ EXCEPT !.raw = raw, !.i = @ + 1,
                                        !.pulses = @ + 8, !.data = @ + 8]]
                  /\ UNCHANGED <<pc, stack, commLock, bytes, chipPulses>>
             ELSE IF PulsesNeeded = 0
             THEN /\ tx' = [tx EXCEPT ![t] =
                              TxEnded(tx[t].pulses + 8, tx[t].data + 8, gain, 0)]
                  /\ TxFinish(t, raw)
             ELSE /\ tx' = [tx EXCEPT ![t] =
                              [@ EXCEPT !.raw = raw, !.i = @ + 1,
                                        !.pulses = @ + 8, !.data = @ + 8,
                                        !.need = PulsesNeeded, !.g = gain]]
                  /\ Goto(t, "tx_pulse")
                  /\ UNCHANGED <<stack, commLock, bytes, chipPulses>>
    /\ LineUse(t)
    /\ UNCHANGED <<driverVars, readyLock, callVars, readerVars, lastPub, probe, scaleVars>>

\* one trailing _readBit; after the last one the lock is released
TxPulse(t) ==
    /\ pc[t] = "tx_pulse"
    /\ ClockPulse
    /\ IF tx[t].k + 1 = tx[t].need
       THEN /\ tx' = [tx EXCEPT ![t] =
                        TxEnded(tx[t].pulses + 1, tx[t].data, tx[t].g, tx[t].need)]
            /\ TxFinish(t, tx[t].raw)
       ELSE /\ tx' = [tx EXCEPT ![t] = [@ EXCEPT !.k = @ + 1, !.pulses = @ + 1]]
            /\ UNCHANGED <<pc, stack, commLock, bytes, chipPulses>>
    /\ LineUse(t)
    /\ UNCHANGED <<driverVars, readyLock, callVars, readerVars, lastPub, probe, scaleVars>>

\* ------------------------------------------------------------- setConfig

\* a mutant of SetConfigEntry: the check of channel B is missing
SetConfigEntryNoBCheck(c, g, back) ==
    /\ arg' = [c |-> c, g |-> g]
    /\ IF c = "A" /\ g = 32
       THEN /\ Goto("c", "idle")
            /\ stack' = [stack EXCEPT !["c"] = <<>>]
            /\ cres' = "InvalidArgument"
            /\ backup' = backup
       ELSE /\ Goto("c", "sc_chan")
            /\ stack' = [stack EXCEPT !["c"] = back]
            /\ cres' = "none"
            /\ backup' = [c |-> channel, g |-> gain]

\* the entry of setConfig(c, g) on the calling thread: the two argument
\* checks throw std::invalid_argument; else the held pair is backed up.
\* back is the stack the call returns through.
SetConfigEntry(c, g, back) ==
    /\ arg' = [c |-> c, g |-> g]
    /\ IF (c = "A" /\ g = 32) \/ (c = "B" /\ g # 32)
       THEN /\ Goto("c", "idle")
            /\ stack' = [stack EXCEPT !["c"] = <<>>]
            /\ cres' = "InvalidArgument"
            /\ backup' = backup
       ELSE /\ Goto("c", "sc_chan")
            /\ stack' = [stack EXCEPT !["c"] = back]
            /\ cres' = "none"
            /\ backup' = [c |-> channel, g |-> gain]

\* this->_channel = c
ScChan ==
    /\ pc["c"] = "sc_chan"
    /\ channel' = arg.c
    /\ Goto("c", "sc_gain")
    /\ UNCHANGED <<gpio, watchState, lastVal, gain, bitFormat, byteFormat,
                   lockVars, chipVars, busVars, stack, tx, bytes, callVars, readerVars,
                   lastPub, probe, scaleVars>>

\* a mutant of ScGain: the gain is stored and the read that carries it to
\* the chip is left out
ScGainNoRead ==
    /\ pc["c"] = "sc_gain"
    /\ gain' = arg.g
    /\ tx' = [tx EXCEPT !["c"] = TxStart(FALSE)]
    /\ Return("c")
    /\ UNCHANGED <<gpio, watchState, lastVal, channel, bitFormat, byteFormat,
                   lockVars, chipVars, busVars, bytes, callVars, readerVars,
                   lastPub, probe, scaleVars>>

\* this->_gain = g, then this->_readRawBytes() with no byte array; that call
\* throws no TimeoutException, so the handler restoring the backup is never
\* entered and setConfig returns when the transaction does
ScGain ==
    /\ pc["c"] = "sc_gain"
    /\ gain' = arg.g
    /\ tx' = [tx EXCEPT !["c"] = TxStart(FALSE)]
    /\ Goto("c", "tx_lock")
    /\ UNCHANGED <<gpio, watchState, lastVal, channel, bitFormat, byteFormat,
                   lockVars, chipVars, busVars, stack, bytes, callVars, readerVars,
                   lastPub, probe, scaleVars>>

\* ------------------------------------------------------------------ begin

\* HX711::begin: open the chip and claim both pins, or fail with
\* std::runtime_error before anything else is done; then powerDown()
Begin ==
    /\ pc["c"] = "new"
    /\ \E f \in {"ok", "open", "data", "clock"} :
         IF f = "ok"
         THEN /\ gpio' = "open"
              /\ clock' = 0
              /\ Call("c", "pd_pause", "b_up")
              /\ cres' = "none"
         ELSE /\ gpio' = IF f = "open" THEN "none" ELSE "chip"
              /\ clock' = clock
              /\ Goto("c", "failed")
              /\ stack' = stack
              /\ cres' = "ResourceError"
    /\ cop' = "begin"
    /\ UNCHANGED <<watchState, lastVal, channel, gain, bitFormat, byteFormat,
                   lockVars, chipOn, chipReady, chipVal, chipPos, busVars, tx, bytes,
                   arg, backup, ttLeft, pre, readerVars, lastPub, probe, scaleVars>>

\* a mutant of BeginUp: the watcher is started before powerUp
BeginUpStartsWatcher ==
    /\ pc["c"] = "b_up"
    /\ pc' = [pc EXCEPT !["c"] = "pu_run", !["w"] = "w_top"]
    /\ stack' = [stack EXCEPT !["c"] = <<"b_cfg">> \o stack["c"]]
    /\ UNCHANGED <<driverVars, lockVars, chipVars, busVars, tx, bytes, callVars,
                   readerVars, lastPub, probe, scaleVars>>

\* this->powerUp() of begin
BeginUp ==
    /\ pc["c"] = "b_up"
    /\ Call("c", "pu_run", "b_cfg")
    /\ UNCHANGED <<driverVars, lockVars, chipVars, busVars, tx, bytes, callVars,
                   readerVars, lastPub, probe, scaleVars>>

\* this->setConfig(this->_channel, this->_gain) of begin
BeginConfig ==
    /\ pc["c"] = "b_cfg"
    /\ SetConfigEntry(channel, gain, <<"b_start">>)
    /\ UNCHANGED <<driverVars, lockVars, chipVars, busVars, tx, bytes, ttLeft, cop, pre,
                   readerVars, lastPub, probe, scaleVars>>

\* std::thread(&HX711::_watchPin, this).detach()
BeginStart ==
    /\ pc["c"] = "b_start"
    /\ pc' = [pc EXCEPT !["c"] = "idle", !["w"] = "w_top"]
    /\ UNCHANGED <<driverVars, lockVars, chipVars, busVars, stack, tx, bytes, callVars,
                   readerVars, lastPub, probe, scaleVars>>

\* ------------------------------------------------------------- powerDown

PdPause ==
    /\ pc["c"] = "pd_pause"
    /\ watchState' = "PAUSE"
    /\ Goto("c", "pd_lock")
    /\ UNCHANGED <<gpio, lastVal, channel, gain, bitFormat, byteFormat,
                   lockVars, chipVars, busVars, stack, tx, bytes, callVars, readerVars,
                   lastPub, probe, scaleVars>>

\* std::lock_guard<std::mutex> lock(_commLock); lgGpioWrite(clock, 0)
PdLock ==
    /\ pc["c"] = "pd_lock"
    /\ commLock = "free"
    /\ commLock' = "c"
    /\ ClockLow
    /\ Goto("c", "pd_high")
    /\ UNCHANGED <<driverVars, readyLock, stack, tx, bytes, callVars,
                   readerVars, lastPub, probe, scaleVars>>

\* lgGpioWrite(clock, 1), _delayMicroseconds(60), the lock_guard's release
PdHigh ==
    /\ pc["c"] = "pd_high"
    /\ ClockHighHold
    /\ commLock' = "free"
    /\ Return("c")
    /\ UNCHANGED <<driverVars, readyLock, tx, bytes, callVars, readerVars,
                   lastPub, probe, scaleVars>>

\* --------------------------------------------------------------- powerUp

PuRun ==
    /\ pc["c"] = "pu_run"
    /\ watchState' = "NORMAL"
    /\ Goto("c", "pu_lock")
    /\ UNCHANGED <<gpio, lastVal, channel, gain, bitFormat, byteFormat,
                   lockVars, chipVars, busVars, stack, tx, bytes, callVars, readerVars,
                   lastPub, probe, scaleVars>>

\* a mutant of PuLock: powerUp does not take the bus lock
PuLockNoMutex ==
    /\ pc["c"] = "pu_lock"
    /\ Goto("c", "pu_low")
    /\ UNCHANGED <<driverVars, lockVars, chipVars, busVars, stack, tx, bytes, callVars,
                   readerVars, lastPub, probe, scaleVars>>

\* std::unique_lock<std::mutex> lock(_commLock)
PuLock ==
    /\ pc["c"] = "pu_lock"
    /\ commLock = "free"
    /\ commLock' = "c"
    /\ Goto("c", "pu_low")
    /\ UNCHANGED <<driverVars, readyLock, chipVars, busVars, stack, tx, bytes, callVars,
                   readerVars, lastPub, probe, scaleVars>>

\* a mutant of PuLow: the configuration is not applied again
PuLowNoConfig ==
    /\ pc["c"] = "pu_low"
    /\ ClockLow
    /\ commLock' = "free"
    /\ Return("c") /\ UNCHANGED <<arg, cres, backup>>
    /\ UNCHANGED <<driverVars, readyLock, tx, bytes, ttLeft, cop, pre,
                   readerVars, lastPub, probe, scaleVars>>

\* lgGpioWrite(clock, 0); lock.unlock();
\* if(_gain != Gain::GAIN_128) setConfig(_channel, _gain)
PuLow ==
    /\ pc["c"] = "pu_low"
    /\ ClockLow
    /\ commLock' = "free"
    /\ IF gain # 128
       THEN SetConfigEntry(channel, gain, stack["c"])
       ELSE Return("c") /\ UNCHANGED <<arg, cres, backup>>
    /\ UNCHANGED <<driverVars, readyLock, tx, bytes, ttLeft, cop, pre,
                   readerVars, lastPub, probe, scaleVars>>

\* ------------------------------------------------------------ testTiming

\* while(!isReady()); then _readInt()
TtWait1 ==
    /\ pc["c"] = "tt_wait1"
    /\ isReady
    /\ tx' = [tx EXCEPT !["c"] = TxStart(TRUE)]
    /\ Call("c", "tx_lock", "tt_wait2")
    /\ UNCHANGED <<driverVars, lockVars, chipVars, busVars, bytes, callVars,
                   readerVars, lastPub, probe, scaleVars>>

\* the value of _readInt is dropped; while(!isReady()); vec.push_back(t);
\* and the next turn of the loop or the return
TtWait2 ==
    /\ pc["c"] = "tt_wait2"
    /\ isReady
    /\ ttLeft' = ttLeft - 1
    /\ bytes' = [bytes EXCEPT !["c"] = <<0, 0, 0>>]
    /\ IF ttLeft - 1 = 0 THEN Return("c")
       ELSE Goto("c", "tt_wait1") /\ stack' = stack
    /\ UNCHANGED <<driverVars, lockVars, chipVars, busVars, tx, arg, backup, cop, cres,
                   pre, readerVars, lastPub, probe, scaleVars>>

\* ------------------------------------------------- the calling thread's calls

\* what every call of the calling thread on a started driver begins with
\* (cres: the exception the call has thrown, "none" while there is none)
CallStart(op) ==
    /\ pc["c"] = "idle"
    /\ pc["w"] # "w_none"
    /\ cop' = op
    /\ tx' = [tx EXCEPT !["c"] = TxIdle]
    /\ pre' = [c |-> channel, g |-> gain]
    /\ UNCHANGED <<driverVars, lockVars, chipVars, busVars, bytes, readerVars, lastPub,
                   probe, scaleVars>>

CallSetConfig ==
    /\ CallStart("setConfig")
    /\ \E c \in Channels, g \in Gains : SetConfigEntry(c, g, <<"idle">>)
    /\ ttLeft' = 0

CallPowerDown ==
    /\ CallStart("powerDown")
    /\ Call("c", "pd_pause", "idle")
    /\ arg' = [c |-> channel, g |-> gain]
    /\ backup' = [c |-> channel, g |-> gain]
    /\ cres' = "none"
    /\ ttLeft' = 0

CallPowerUp ==
    /\ CallStart("powerUp")
    /\ Call("c", "pu_run", "idle")
    /\ arg' = [c |-> channel, g |-> gain]
    /\ backup' = [c |-> channel, g |-> gain]
    /\ cres' = "none"
    /\ ttLeft' = 0

\* testTiming(n): no turn of the loop for n = 0
CallTestTiming ==
    /\ CallStart("testTiming")
    /\ \E n \in 0..MaxTiming :
         /\ ttLeft' = n
         /\ IF n = 0 THEN UNCHANGED <<pc, stack>>
            ELSE Call("c", "tt_wait1", "idle")
    /\ arg' = [c |-> channel, g |-> gain]
    /\ backup' = [c |-> channel, g |-> gain]
    /\ cres' = "none"

\* setBitFormat(f) and setByteFormat(f), called while the driver is set up,
\* before begin
SetBitFormat ==
    /\ pc["c"] = "new"
    /\ \E f \in Formats : bitFormat' = f
    /\ UNCHANGED <<gpio, watchState, lastVal, channel, gain, byteFormat,
                   lockVars, chipVars, busVars, pc, stack, tx, bytes, callVars,
                   readerVars, lastPub, probe, scaleVars>>

SetByteFormat ==
    /\ pc["c"] = "new"
    /\ \E f \in Formats : byteFormat' = f
    /\ UNCHANGED <<gpio, watchState, lastVal, channel, gain, bitFormat,
                   lockVars, chipVars, busVars, pc, stack, tx, bytes, callVars,
                   readerVars, lastPub, probe, scaleVars>>

\* a mutant of Destructor: it waits until the watcher is between two turns
\* of its loop
DestructorJoins ==
    /\ pc["c"] = "idle"
    /\ \A r \in Readers : pc[r] = "idle"
    /\ pc["w"] \in {"w_top", "w_sleepNotReady", "w_sleepSaturated", "w_sleepPoll"}
    /\ watchState' = "END"
    /\ gpio' = "released"
    /\ Goto("c", "destroyed")
    /\ UNCHANGED <<lastVal, channel, gain, bitFormat, byteFormat, lockVars,
                   chipVars, busVars, stack, tx, bytes, callVars, readerVars, lastPub,
                   probe, scaleVars>>

\* HX711::~HX711: the object is destroyed by its owner once no getValue call
\* is inside it; the detached watcher is not waited for
Destructor ==
    /\ pc["c"] = "idle"
    /\ \A r \in Readers : pc[r] = "idle"
    /\ watchState' = "END"
    /\ gpio' = "released"
    /\ Goto("c", "destroyed")
    /\ UNCHANGED <<lastVal, channel, gain, bitFormat, byteFormat, lockVars,
                   chipVars, busVars, stack, tx, bytes, callVars, readerVars, lastPub,
                   probe, scaleVars>>

\* --------------------------------------------------------------- _watchPin

\* what the watcher reads in this->_watchState: the member, or, once ~HX711
\* has returned and the object of the detached thread is gone, whatever the
\* dangling this gives
WatchStateRead ==
    IF pc["c"] = "destroyed" THEN {"NORMAL", "PAUSE", "END"} ELSE {watchState}

\* the top of the loop: break on END, yield and continue on PAUSE
\* (the two reads of _watchState are taken as one: reading PAUSE and then
\* not-PAUSE, or not-END and then END, leads where a single later or earlier
\* read leads)
WTop ==
    /\ pc["w"] = "w_top"
    /\ \E s \in WatchStateRead :
         Goto("w", IF s = "END" THEN "w_exit"
                   ELSE IF s = "PAUSE" THEN "w_top"
                   ELSE "w_lock")
    /\ UNCHANGED <<driverVars, lockVars, chipVars, busVars, stack, tx, bytes, callVars,
                   readerVars, lastPub, probe, scaleVars>>

\* std::unique_lock<std::mutex> ready(_readyLock)
WLock ==
    /\ pc["w"] = "w_lock"
    /\ readyLock = "free"
    /\ readyLock' = "w"
    /\ Goto("w", "w_ready")
    /\ UNCHANGED <<driverVars, commLock, chipVars, busVars, stack, tx, bytes, callVars,
                   readerVars, lastPub, probe, scaleVars>>

\* a mutant of WReady: the not-ready sleep is taken with the ready lock held
WReadyKeepsLock ==
    /\ pc["w"] = "w_ready"
    /\ IF isReady
       THEN /\ Call("w", "tx_lock", "w_decode")
            /\ tx' = [tx EXCEPT !["w"] = TxStart(TRUE)]
       ELSE /\ Goto("w", "w_sleepNotReady")
            /\ stack' = stack
            /\ tx' = tx
    /\ readyLock' = readyLock
    /\ LineUse("w")
    /\ UNCHANGED <<driverVars, commLock, chipVars, chipPulses, bytes, callVars,
                   readerVars, lastPub, probe, scaleVars>>

\* if(!isReady()) { ready.unlock(); sleep; continue; }  else _readInt()
WReady ==
    /\ pc["w"] = "w_ready"
    /\ IF isReady
       THEN /\ Call("w", "tx_lock", "w_decode")
            /\ tx' = [tx EXCEPT !["w"] = TxStart(TRUE)]
            /\ readyLock' = readyLock
       ELSE /\ Goto("w", "w_sleepNotReady")
            /\ stack' = stack
            /\ tx' = tx
            /\ readyLock' = "free"
    /\ LineUse("w")
    /\ UNCHANGED <<driverVars, commLock, chipVars, chipPulses, bytes, callVars,
                   readerVars, lastPub, probe, scaleVars>>

\* the value _readInt returns for the bytes _readRawBytes copied out
ReadIntValue(t) == _convertFromTwosComplement(FieldOf(bytes[t]))

\* a mutant of Publish: notify_one in place of notify_all
PublishNotifyOne(v) ==
    LET waiting == {r \in Readers : pc[r] = "gv_wait"}
        one == IF waiting = {} THEN {} ELSE {CHOOSE r \in waiting : TRUE}
    IN /\ lastVal' = v
       /\ lastPub' = [has |-> TRUE, v |-> v]
       /\ pc' = [t \in Threads |->
                   IF t = "w" THEN "w_sleepPoll"
                   ELSE IF t \in one THEN "gv_woken"
                   ELSE pc[t]]
       /\ cause' = [r \in Readers |-> IF r \in one THEN "notify" ELSE cause[r]]
       /\ pubDuring' = [r \in Readers |->
                          IF pc[r] \in {"gv_wait", "gv_woken"} THEN TRUE
                          ELSE pubDuring[r]]
       /\ readyLock' = "free"

\* _lastVal = v; _dataReady.notify_all(); ready.unlock()
Publish(v) ==
    /\ lastVal' = v
    /\ lastPub' = [has |-> TRUE, v |-> v]
    /\ pc' = [t \in Threads |->
                IF t = "w" THEN "w_sleepPoll"
                ELSE IF t \in Readers /\ pc[t] = "gv_wait" THEN "gv_woken"
                ELSE pc[t]]
    /\ cause' = [r \in Readers |-> IF pc[r] = "gv_wait" THEN "notify" ELSE cause[r]]
    /\ pubDuring' = [r \in Readers |->
                       IF pc[r] \in {"gv_wait", "gv_woken"} THEN TRUE
                       ELSE pubDuring[r]]
    /\ readyLock' = "free"

\* if(_isSaturated(v)) { ready.unlock(); sleep; continue; }
Withhold ==
    /\ lastVal' = lastVal
    /\ lastPub' = lastPub
    /\ Goto("w", "w_sleepSaturated")
    /\ cause' = cause
    /\ pubDuring' = pubDuring
    /\ readyLock' = "free"

\* const HX_VALUE v = _readInt(), the saturation test and the publication
WDecode ==
    /\ pc["w"] = "w_decode"
    /\ IF _isSaturated(ReadIntValue("w")) THEN Withhold
       ELSE Publish(ReadIntValue("w"))
    /\ bytes' = [bytes EXCEPT !["w"] = <<0, 0, 0>>]
    /\ tx' = [tx EXCEPT !["w"] = TxIdle]
    /\ UNCHANGED <<gpio, watchState, channel, gain, bitFormat, byteFormat,
                   commLock, chipVars, busVars, stack, callVars, rres, rpub, probe, scaleVars>>

\* lguSleep of the not-ready, saturated or poll interval, then the next turn
WSleep ==
    /\ pc["w"] \in {"w_sleepNotReady", "w_sleepSaturated", "w_sleepPoll"}
    /\ Goto("w", "w_top")
    /\ UNCHANGED <<driverVars, lockVars, chipVars, busVars, stack, tx, bytes, callVars,
                   readerVars, lastPub, probe, scaleVars>>

\* ---------------------------------------------------------------- getValue

\* a caller enters getValue on a started, live driver
GvCall(r) ==
    /\ pc[r] = "idle"
    /\ pc["w"] # "w_none"
    /\ pc["c"] # "destroyed"
    /\ Goto(r, "gv_lock")
    /\ cause' = [cause EXCEPT ![r] = "none"]
    /\ rres' = [rres EXCEPT ![r] = NoResult]
    /\ pubDuring' = [pubDuring EXCEPT ![r] = FALSE]
    /\ rpub' = [rpub EXCEPT ![r] = NoPub]
    /\ UNCHANGED <<driverVars, lockVars, chipVars, busVars, stack, tx, bytes, callVars,
                   lastPub, probe, scaleVars>>

\* std::unique_lock<std::mutex> ready(_readyLock)
GvLock(r) ==
    /\ pc[r] = "gv_lock"
    /\ readyLock = "free"
    /\ readyLock' = r
    /\ Goto(r, "gv_locked")
    /\ UNCHANGED <<driverVars, commLock, chipVars, busVars, stack, tx, bytes, callVars,
                   readerVars, lastPub, probe, scaleVars>>

\* _dataReady.wait_for(ready, _maxWait): release the lock and block
GvWait(r) ==
    /\ pc[r] = "gv_locked"
    /\ readyLock' = "free"
    /\ Goto(r, "gv_wait")
    /\ UNCHANGED <<driverVars, commLock, chipVars, busVars, stack, tx, bytes, callVars,
                   readerVars, lastPub, probe, scaleVars>>

\* the relative timeout expires: cv_status::timeout
GvTimeout(r) ==
    /\ pc[r] = "gv_wait"
    /\ Goto(r, "gv_woken")
    /\ cause' = [cause EXCEPT ![r] = "timeout"]
    /\ UNCHANGED <<driverVars, lockVars, chipVars, busVars, stack, tx, bytes, callVars,
                   rres, pubDuring, rpub, lastPub, probe, scaleVars>>

\* wait_for may also unblock spuriously: cv_status::no_timeout with no notify
GvSpurious(r) ==
    /\ pc[r] = "gv_wait"
    /\ Goto(r, "gv_woken")
    /\ cause' = [cause EXCEPT ![r] = "spurious"]
    /\ UNCHANGED <<driverVars, lockVars, chipVars, busVars, stack, tx, bytes, callVars,
                   rres, pubDuring, rpub, lastPub, probe, scaleVars>>

\* a notified caller whose relative timeout has expired by the time wait_for
\* returns: cv_status::timeout
GvExpire(r) ==
    /\ pc[r] = "gv_woken"
    /\ cause[r] = "notify"
    /\ cause' = [cause EXCEPT ![r] = "notifyLate"]
    /\ UNCHANGED <<driverVars, lockVars, chipVars, busVars, pc, stack, tx, bytes,
                   callVars, rres, pubDuring, rpub, lastPub, probe, scaleVars>>

\* wait_for takes the lock again before it returns
GvRelock(r) ==
    /\ pc[r] = "gv_woken"
    /\ readyLock = "free"
    /\ readyLock' = r
    /\ Goto(r, "gv_ret")
    /\ UNCHANGED <<driverVars, commLock, chipVars, busVars, stack, tx, bytes, callVars,
                   readerVars, lastPub, probe, scaleVars>>

\* throw TimeoutException on cv_status::timeout, else return _lastVal
\* (rpub: the watcher's latest publication at that moment)
GvReturn(r) ==
    /\ pc[r] = "gv_ret"
    /\ rres' = [rres EXCEPT ![r] =
                  IF cause[r] \in {"timeout", "notifyLate"}
                  THEN [k |-> "timeout", v |-> 0]
                  ELSE [k |-> "value", v |-> lastVal]]
    /\ rpub' = [rpub EXCEPT ![r] = lastPub]
    /\ readyLock' = "free"
    /\ Goto(r, "idle")
    /\ UNCHANGED <<driverVars, commLock, chipVars, busVars, stack, tx, bytes, callVars,
                   cause, pubDuring, lastPub, probe, scaleVars>>

\* ------------------------------------------------------------ specifications

\* the bus: a transaction of the watcher or of the calling thread
Transaction == \E t \in BusThreads : TxLock(t) \/ TxByte(t) \/ TxPulse(t)

Startup == Begin \/ BeginUp \/ BeginConfig \/ BeginStart

PowerDown == PdPause \/ PdLock \/ PdHigh

PowerUp == PuRun \/ PuLock \/ PuLow

SetConfig == ScChan \/ ScGain

TestTiming == TtWait1 \/ TtWait2

Watcher == WTop \/ WLock \/ WReady \/ WDecode \/ WSleep

GetValue ==
    \E r \in Readers :
        GvCall(r) \/ GvLock(r) \/ GvWait(r) \/ GvTimeout(r) \/ GvSpurious(r)
          \/ GvExpire(r) \/ GvRelock(r) \/ GvReturn(r)

\* The whole system is the watcher, the calling thread and the getValue
\* callers side by side. It is checked in two parts, each a restriction of
\* the whole to the calls a group of properties is about.

\* the bus side: the watcher and every call of the calling thread, no
\* getValue caller (a caller holds the ready lock for one step at a time and
\* writes nothing the watcher or the calling thread reads)
NextBus ==
    \/ ChipConvert
    \/ Transaction
    \/ Startup
    \/ PowerDown \/ PowerUp \/ SetConfig \/ TestTiming
    \/ CallSetConfig \/ CallPowerDown \/ CallPowerUp \/ CallTestTiming
    \/ SetBitFormat \/ SetByteFormat
    \/ Destructor
    \/ Watcher

SpecBus == Init /\ [][NextBus]_vars

\* the life of one driver object: begin, the watcher at work, the destructor
NextLife ==
    \/ ChipConvert
    \/ Transaction
    \/ Startup
    \/ PowerDown \/ PowerUp \/ SetConfig
    \/ Destructor
    \/ Watcher

\* the same under a scheduler that lets the watcher thread run: a step of
\* its loop, or of its transaction, that stays possible is taken
FairWatcher ==
    /\ WF_vars(Watcher)
    /\ WF_vars(TxLock("w") \/ TxByte("w") \/ TxPulse("w"))

SpecLife == Init /\ [][NextLife]_vars /\ FairWatcher

\* the reader side: the watcher and the getValue callers, the calling thread
\* starting the driver, powering the chip down and up, and destroying it
NextRead ==
    \/ ChipConvert
    \/ Transaction
    \/ Startup
    \/ PowerDown \/ PowerUp \/ SetConfig
    \/ CallPowerDown \/ CallPowerUp
    \/ Destructor
    \/ Watcher
    \/ GetValue

SpecRead == Init /\ [][NextRead]_vars

\* every thread at once: the watcher, the getValue callers and the calls of
\* the calling thread that use the bus, on a driver that is not destroyed.
\* What does not bear on who holds or awaits a lock is kept small: the chip
\* converts one ordinary and one saturated reading, setConfig is called with
\* (A, 128) (powerUp then never calls setConfig itself: that call is made
\* after powerUp has released the bus lock and is the same transaction),
\* testTiming with one sample, and a blocked getValue caller leaves its wait
\* by a publication or by its timeout (a spurious or late wake-up takes the
\* same path through the locks and differs in the result only).
NextAll ==
    \/ (ChipConvert /\ chipVal' \in {Encode24(1500), Encode24(HX_MAX_VALUE)})
    \/ Transaction
    \/ Startup
    \/ PowerDown \/ PowerUp \/ SetConfig \/ TestTiming
    \/ (CallSetConfig /\ arg'.c = "A" /\ arg'.g = 128)
    \/ CallPowerDown \/ CallPowerUp
    \/ (CallTestTiming /\ ttLeft' = 1)
    \/ Watcher
    \/ \E r \in Readers :
          GvCall(r) \/ GvLock(r) \/ GvWait(r) \/ GvTimeout(r) \/ GvRelock(r) \/ GvReturn(r)

SpecAll == Init /\ [][NextAll]_vars

\* ------------------------------------------------------ the decode alone

\* the anchors of the inputs: 0 and the powers of two up to 2^24
DecodeAnchors == {0} \cup {2^k : k \in 0..24}

\* integers of the 24-bit signed range near an anchor or its negation
DecodeInputs ==
    {n \in UNION {((a - DecodeSpread)..(a + DecodeSpread))
                    \cup ((-a - DecodeSpread)..(-a + DecodeSpread)) : a \in DecodeAnchors} :
        n >= -(2^23) /\ n <= 2^23 - 1}

\* 24-bit fields near an anchor
DecodeFields ==
    {f \in UNION {(a - DecodeSpread)..(a + DecodeSpread) : a \in DecodeAnchors} :
        f >= 0 /\ f <= 2^24 - 1}

\* an integer to encode and decode, or a field to decode
InitDecode ==
    /\ InitDriver
    /\ ScaleAt("g", 1, 0)
    /\ probe \in
         {[stage |-> "n", from |-> "n", n |-> n, f |-> 0, v |-> 0] : n \in DecodeInputs}
           \cup {[stage |-> "f", from |-> "f", n |-> 0, f |-> f, v |-> 0] : f \in DecodeFields}

\* the chip puts the value on the line as a 24-bit two's-complement field
ProbeEncode ==
    /\ probe.stage = "n"
    /\ probe' = [probe EXCEPT !.stage = "f", !.f = Encode24(probe.n)]
    /\ UNCHANGED <<driverVars, lockVars, chipVars, busVars, pc, stack, tx, bytes,
                   callVars, readerVars, lastPub, scaleVars>>

\* _readInt hands the field to _convertFromTwosComplement
ProbeDecode ==
    /\ probe.stage = "f"
    /\ probe' = [probe EXCEPT !.stage = "v", !.v = _convertFromTwosComplement(probe.f)]
    /\ UNCHANGED <<driverVars, lockVars, chipVars, busVars, pc, stack, tx, bytes,
                   callVars, readerVars, lastPub, scaleVars>>

NextDecode == ProbeEncode \/ ProbeDecode

SpecDecode == InitDecode /\ [][NextDecode]_vars

\* ---------------------------------------------------------------- the scale

\* Mass::Unit
Units == {"g", "kg"}

\* ReadType: its two enumerators and a value that is neither
ReadTypes == {"Median", "Average", "Unknown"}

\* the raw values the source of the scale delivers
RawSamples == {1500, 1501}

\* reference units and offsets passed to the constructor and the setters
RefUnits == {-2, 0, 1, 100}

Offsets == {500, 2000}

\* the state after AbstractScale::AbstractScale(massUnit, refUnit, offset):
\* the three arguments are stored as they are
InitScale ==
    /\ InitDriver
    /\ probe = ProbeIdle
    /\ \E u \in Units, r \in RefUnits, o \in Offsets : ScaleAt(u, r, o)

RECURSIVE SumOf(_)
SumOf(q) == IF q = <<>> THEN 0 ELSE Head(q) + SumOf(Tail(q))

RECURSIVE InsertSorted(_, _)
InsertSorted(x, q) ==
    IF q = <<>> THEN <<x>>
    ELSE IF x <= Head(q) THEN <<x>> \o q
    ELSE <<Head(q)>> \o InsertSorted(x, Tail(q))

RECURSIVE SortAscending(_)
SortAscending(q) ==
    IF q = <<>> THEN <<>> ELSE InsertSorted(Head(q), SortAscending(Tail(q)))

\* Utility::median, as a fraction: the middle element of the sorted samples,
\* or the mean of the two middle ones
median(q) ==
    LET srt == SortAscending(q)
        n == Len(q)
    IN IF n % 2 = 1 THEN [num |-> srt[(n + 1) \div 2], den |-> 1]
       ELSE [num |-> srt[n \div 2] + srt[n \div 2 + 1], den |-> 2]

\* Utility::average, as a fraction
average(q) == [num |-> SumOf(q), den |-> Len(q)]

\* a mutant of normalise: the offset is not subtracted
normaliseNoOffset(v) == [num |-> v.num, den |-> v.den * _refUnit]

\* AbstractScale::normalise: (v - _offset) / _refUnit, as a fraction
normalise(v) ==
    [num |-> v.num - _offset * v.den, den |-> v.den * _refUnit]

\* std::round of a fraction: to the nearest integer, halves away from zero
Round(v) ==
    LET n == IF v.den < 0 THEN -v.num ELSE v.num
        d == IF v.den < 0 THEN -v.den ELSE v.den
    IN IF n >= 0 THEN (2 * n + d) \div (2 * d)
       ELSE -((2 * (-n) + d) \div (2 * d))

\* the record of a call: its arguments and the members it found
ScaleCallOf(op, rt, n) ==
    [op |-> op, rt |-> rt, n |-> n, backup |-> _refUnit,
     unit |-> _massUnit, ref |-> _refUnit, off |-> _offset]

\* a call returns or throws: k is "ok" or the error
ScaleEnds(k, v) ==
    /\ spc' = "idle"
    /\ vals' = <<>>
    /\ sres' = [k |-> k, num |-> v.num, den |-> v.den]

Nothing == [num |-> 0, den |-> 1]

\* AbstractScale::setUnit
setUnit ==
    /\ spc = "idle"
    /\ \E u \in Units :
         /\ scall' = ScaleCallOf("setUnit", "Median", 0)
         /\ _massUnit' = u
    /\ ScaleEnds("ok", Nothing)
    /\ asked' = 0
    /\ UNCHANGED <<_refUnit, _offset, zlog>>
    /\ UNCHANGED <<driverVars, lockVars, chipVars, busVars, pc, stack, tx, bytes,
                   callVars, readerVars, lastPub, probe>>

\* AbstractScale::setReferenceUnit
setReferenceUnit ==
    /\ spc = "idle"
    /\ \E r \in RefUnits :
         /\ scall' = [ScaleCallOf("setReferenceUnit", "Median", 0) EXCEPT !.backup = r]
         /\ IF r = 0
            THEN ScaleEnds("InvalidArgument", Nothing) /\ _refUnit' = _refUnit
            ELSE ScaleEnds("ok", Nothing) /\ _refUnit' = r
    /\ asked' = 0
    /\ UNCHANGED <<_massUnit, _offset, zlog>>
    /\ UNCHANGED <<driverVars, lockVars, chipVars, busVars, pc, stack, tx, bytes,
                   callVars, readerVars, lastPub, probe>>

\* AbstractScale::setOffset
setOffset ==
    /\ spc = "idle"
    /\ \E o \in Offsets :
         /\ scall' = ScaleCallOf("setOffset", "Median", 0)
         /\ _offset' = o
    /\ ScaleEnds("ok", Nothing)
    /\ asked' = 0
    /\ UNCHANGED <<_massUnit, _refUnit, zlog>>
    /\ UNCHANGED <<driverVars, lockVars, chipVars, busVars, pc, stack, tx, bytes,
                   callVars, readerVars, lastPub, probe>>

\* read(rt, n) and weight(rt, n), which is read and a Mass of its result, up
\* to the call of getValues: samples == 0 throws std::range_error
ReadEntry ==
    /\ spc = "idle"
    /\ \E op \in {"read", "weight"}, rt \in ReadTypes, n \in 0..MaxSamples :
         /\ scall' = ScaleCallOf(op, rt, n)
         /\ IF n = 0
            THEN ScaleEnds("RangeError", Nothing)
            ELSE spc' = "getValues" /\ sres' = NoScaleResult /\ vals' = <<>>
    /\ asked' = 0
    /\ UNCHANGED <<_massUnit, _refUnit, _offset, zlog>>
    /\ UNCHANGED <<driverVars, lockVars, chipVars, busVars, pc, stack, tx, bytes,
                   callVars, readerVars, lastPub, probe>>

\* a mutant of ZeroEntry: the sample count is tested after setReferenceUnit(1)
ZeroEntryLateCheck ==
    /\ spc = "idle"
    /\ zlog.count < MaxZeros
    /\ \E rt \in ReadTypes, n \in 0..MaxSamples :
         /\ scall' = ScaleCallOf("zero", rt, n)
         /\ IF n = 0
            THEN ScaleEnds("RangeError", Nothing)
            ELSE spc' = "getValues" /\ sres' = NoScaleResult /\ vals' = <<>>
    /\ _refUnit' = 1
    /\ asked' = 0
    /\ UNCHANGED <<_massUnit, _offset, zlog>>
    /\ UNCHANGED <<driverVars, lockVars, chipVars, busVars, pc, stack, tx, bytes,
                   callVars, readerVars, lastPub, probe>>

\* zero(rt, n) up to the call of getValues in read: samples == 0 throws
\* std::range_error; else backup = _refUnit, setReferenceUnit(1), read(rt, n)
ZeroEntry ==
    /\ spc = "idle"
    /\ zlog.count < MaxZeros
    /\ \E rt \in ReadTypes, n \in 0..MaxSamples :
         /\ scall' = ScaleCallOf("zero", rt, n)
         /\ IF n = 0
            THEN /\ ScaleEnds("RangeError", Nothing)
                 /\ _refUnit' = _refUnit
            ELSE /\ spc' = "getValues" /\ sres' = NoScaleResult /\ vals' = <<>>
                 /\ _refUnit' = 1
    /\ asked' = 0
    /\ UNCHANGED <<_massUnit, _offset, zlog>>
    /\ UNCHANGED <<driverVars, lockVars, chipVars, busVars, pc, stack, tx, bytes,
                   callVars, readerVars, lastPub, probe>>

\* getValues(samples): the source is asked for n samples and delivers the
\* next one
SourceSample ==
    /\ spc = "getValues"
    /\ Len(vals) < scall.n
    /\ asked' = scall.n
    /\ \E v \in RawSamples : vals' = Append(vals, v)
    /\ UNCHANGED <<_massUnit, _refUnit, _offset, spc, scall, sres, zlog>>
    /\ UNCHANGED <<driverVars, lockVars, chipVars, busVars, pc, stack, tx, bytes,
                   callVars, readerVars, lastPub, probe>>

\* getValues(samples): the bounded wait for the next sample times out; the
\* exception leaves read, and zero, which have no handler
SourceTimeout ==
    /\ spc = "getValues"
    /\ Len(vals) < scall.n
    /\ asked' = scall.n
    /\ ScaleEnds("TimeoutError", Nothing)
    /\ UNCHANGED <<_massUnit, _refUnit, _offset, scall, zlog>>
    /\ UNCHANGED <<driverVars, lockVars, chipVars, busVars, pc, stack, tx, bytes,
                   callVars, readerVars, lastPub, probe>>

\* read after getValues: the switch on rt, then normalise; a zero _refUnit
\* fails the assert or, without asserts, gives a quotient that is no number;
\* in zero, _offset = round of the result
Aggregate ==
    /\ spc = "getValues"
    /\ Len(vals) = scall.n
    /\ IF scall.rt = "Unknown"
       THEN ScaleEnds("InvalidArgument", Nothing) /\ _offset' = _offset
       ELSE LET val == IF scall.rt = "Median" THEN median(vals) ELSE average(vals)
                nv == normalise(val)
            IN IF _refUnit = 0
               THEN /\ \E k \in {"abort", "nonfinite"} : ScaleEnds(k, Nothing)
                    /\ _offset' = _offset
               ELSE IF scall.op = "zero"
               THEN /\ _offset' = Round(nv)
                    /\ spc' = "restore"
                    /\ vals' = vals
                    /\ sres' = [k |-> "none", num |-> val.num, den |-> val.den]
               ELSE ScaleEnds("ok", nv) /\ _offset' = _offset
    /\ UNCHANGED <<_massUnit, _refUnit, scall, asked, zlog>>
    /\ UNCHANGED <<driverVars, lockVars, chipVars, busVars, pc, stack, tx, bytes,
                   callVars, readerVars, lastPub, probe>>

\* zero: setReferenceUnit(backup), which throws on a backup of 0
ZeroRestore ==
    /\ spc = "restore"
    /\ IF scall.backup = 0
       THEN /\ ScaleEnds("InvalidArgument", Nothing)
            /\ UNCHANGED <<_refUnit, zlog>>
       ELSE /\ ScaleEnds("ok", Nothing)
            /\ _refUnit' = scall.backup
            /\ zlog' = [count |-> zlog.count + 1,
                         agg |-> [num |-> sres.num, den |-> sres.den],
                         before |-> scall.off, after |-> _offset]
    /\ UNCHANGED <<_massUnit, _offset, scall, asked>>
    /\ UNCHANGED <<driverVars, lockVars, chipVars, busVars, pc, stack, tx, bytes,
                   callVars, readerVars, lastPub, probe>>

NextScale ==
    \/ setUnit
    \/ setReferenceUnit
    \/ setOffset
    \/ ReadEntry
    \/ ZeroEntry
    \/ SourceSample
    \/ SourceTimeout
    \/ Aggregate
    \/ ZeroRestore

SpecScale == InitScale /\ [][NextScale]_vars

\* ------------------------------------------------------------- properties

\* the three pairs the chip knows
ValidPairs == {<<"A", 128>>, <<"A", 64>>, <<"B", 32>>}

\* a value at one of the two ends of the 24-bit signed range
AtRangeEnd(v) == v = -8388608 \/ v = 8388607

\* C1: a getValue call returns a value only if the watcher published while
\* the call was waiting, and the value is the watcher's latest publication
\* when the caller wakes; it is never a value the watcher did not publish.
C1_ReturnsOnlyPublished ==
    \A r \in Readers :
        rres[r].k = "value" =>
            /\ pubDuring[r]
            /\ rpub[r].has
            /\ rres[r].v = rpub[r].v

\* C2: a getValue call during whose wait the watcher published nothing ends
\* with TimeoutError and returns no value.
C2_NoPublicationMeansTimeout ==
    \A r \in Readers :
        (pc[r] = "idle" /\ rres[r].k # "none" /\ ~pubDuring[r]) =>
            rres[r].k = "timeout"

\* C3: setConfig of one of the three valid pairs succeeds and the getters
\* then give that pair; setConfig of any other pairing fails with
\* InvalidArgument, makes no clock pulse and leaves channel and gain as
\* they were.
C3_SetConfigOutcome ==
    (pc["c"] = "idle" /\ cop = "setConfig") =>
        IF <<arg.c, arg.g>> \in ValidPairs
        THEN cres = "none" /\ channel = arg.c /\ gain = arg.g
        ELSE /\ cres = "InvalidArgument"
             /\ channel = pre.c /\ gain = pre.g
             /\ tx["c"].pulses = 0

\* a rejected setConfig(B, 64) on a driver an earlier setConfig moved to (A, 64)
C3_Witness ==
    /\ pc["c"] = "idle" /\ cop = "setConfig"
    /\ arg = [c |-> "B", g |-> 64]
    /\ cres = "InvalidArgument"
    /\ channel = "A" /\ gain = 64

\* C4: in every state, the states between the steps of setConfig included,
\* the held (channel, gain) is one of the three valid pairs.
C4_HeldPairAlwaysValid == <<channel, gain>> \in ValidPairs

InBus(t) ==
    \/ pc[t] \in {"tx_byte", "tx_pulse"}
    \/ t = "c" /\ pc[t] \in {"pd_high", "pu_low"}

\* C6: at most one thread is inside a bus sequence, and it holds the bus
\* lock: no clock write of one sequence falls inside another.
C6_BusExclusive ==
    /\ Cardinality({t \in BusThreads : InBus(t)}) <= 1
    /\ \A t \in BusThreads : InBus(t) => commLock = t

\* the watcher waits for the bus while powerDown is between its two writes
C6_Witness ==
    /\ pc["w"] = "tx_lock"
    /\ pc["c"] = "pd_high"
    /\ commLock = "c"

\* C7: no getValue call returns a saturated value.
C7_NoSaturatedReturned ==
    \A r \in Readers : rres[r].k = "value" => ~AtRangeEnd(rres[r].v)

\* the step in which the watcher publishes
PublishStep == pc["w"] = "w_decode" /\ pc'["w"] = "w_sleepPoll"

\* the ready lock is held where _lastVal is written and where it is read
ReadyLockHeld ==
    /\ pc["w"] \in {"w_ready", "tx_lock", "tx_byte", "tx_pulse", "w_decode"}
         => readyLock = "w"
    /\ \A r \in Readers : pc[r] \in {"gv_locked", "gv_ret"} => readyLock = r

C9_PulseCount ==
    \A t \in BusThreads :
        (tx[t].pulses > 0 /\ pc[t] \notin {"tx_byte", "tx_pulse"}) =>
            /\ tx[t].data = 24
            /\ tx[t].pulses = CASE tx[t].g = 128 -> 25
                                [] tx[t].g = 32 -> 25
                                [] tx[t].g = 64 -> 27

\* the watcher has ended a transaction of 27 pulses at gain 64
C9_Witness ==
    /\ pc["w"] = "w_decode"
    /\ tx["w"].g = 64
    /\ tx["w"].pulses = 27

\* C10: decoding the 24-bit encoding of n gives n back, and every decoded
\* field lies in the 24-bit signed range.
C10_DecodeCorrect ==
    probe.stage = "v" =>
        /\ probe.from = "n" => probe.v = probe.n
        /\ probe.v >= -8388608 /\ probe.v <= 8388607

\* the most negative value has been encoded and decoded
C10_Witness ==
    /\ probe.stage = "v" /\ probe.from = "n"
    /\ probe.n = -8388608 /\ probe.f = 8388608

\* a call of read, weight or zero has ended
AggregatedCallEnded == spc = "idle" /\ scall.op \in {"read", "weight", "zero"}

\* the three members are those the call found
ScaleUnchanged ==
    /\ _massUnit = scall.unit
    /\ _refUnit = scall.ref
    /\ _offset = scall.off

\* C11: the reference unit of the scale is non-zero in every state, from
\* the constructor on.
C11_ReferenceUnitNonZero == _refUnit # 0

\* C12: when a zero call has ended, normally or with an error, the
\* reference unit and the mass unit are those from before the call, and the
\* offset differs only if the call succeeded.
C12_ZeroRestoresReferenceUnit ==
    (spc = "idle" /\ scall.op = "zero") =>
        /\ _refUnit = scall.ref
        /\ _massUnit = scall.unit
        /\ _offset # scall.off => sres.k = "ok"

\* the step in which zero returns normally
ZeroReturns == spc = "restore" /\ spc' = "idle" /\ sres'.k = "ok"

\* C13: after a successful zero the offset is round(aggregate - offset
\* before the call); with an integer aggregate c that is c - o, and a second
\* zero with the same aggregate, the offset untouched in between, sets the
\* offset back to o.
C13_ZeroComposesWithOffset ==
    /\ []((spc = "idle" /\ scall.op = "zero" /\ sres.k = "ok") =>
            /\ zlog.before = scall.off /\ zlog.after = _offset
            /\ 2 * zlog.agg.den * _offset
                 <= 2 * (zlog.agg.num - scall.off * zlog.agg.den) + zlog.agg.den
            /\ 2 * zlog.agg.den * _offset
                 >= 2 * (zlog.agg.num - scall.off * zlog.agg.den) - zlog.agg.den
            /\ \A c \in RawSamples :
                 zlog.agg.num = c * zlog.agg.den => _offset = c - scall.off)
    /\ [][(/\ ZeroReturns
           /\ zlog.count >= 1
           /\ scall.off = zlog.after
           /\ sres.num * zlog.agg.den = zlog.agg.num * sres.den
           /\ sres.num % sres.den = 0) => _offset' = zlog.before]_vars

\* a second zero on a constant 1500 has set the offset back from 1000 to 500
C13_Witness ==
    /\ spc = "idle" /\ scall.op = "zero" /\ sres.k = "ok"
    /\ zlog.count = 2
    /\ zlog.agg.num = 1500 * zlog.agg.den
    /\ zlog.before = 1000
    /\ _offset = 500

\* C14: read, weight and zero called with sample count 0 end with
\* RangeError, whatever the kind, with no sample asked of the source and the
\* three members unchanged.
C14_ZeroSamplesRejected ==
    (AggregatedCallEnded /\ scall.n = 0) =>
        /\ sres.k = "RangeError"
        /\ asked = 0
        /\ ScaleUnchanged

\* zero(unknown kind, 0) has been rejected on a scale of reference unit 100
C14_Witness ==
    /\ spc = "idle" /\ scall.op = "zero" /\ scall.n = 0 /\ scall.rt = "Unknown"
    /\ sres.k = "RangeError"
    /\ _refUnit = 100

\* C15: read, weight and zero called with an unknown kind and a sample
\* count of 1 or more end with InvalidArgument, with no sample asked of the
\* source and the three members unchanged.
C15_UnknownKindRejectedFirst ==
    (AggregatedCallEnded /\ scall.rt = "Unknown" /\ scall.n >= 1) =>
        /\ sres.k = "InvalidArgument"
        /\ asked = 0
        /\ ScaleUnchanged

\* the watcher makes its readiness check, or the first clock pulse of a
\* transaction
WatcherStartsBusUse ==
    \/ pc["w"] = "w_ready" /\ pc'["w"] # "w_ready"
    \/ pc["w"] = "tx_byte" /\ tx["w"].i = 0 /\ tx'["w"] # tx["w"]

\* C16: while the watcher state is Paused the watcher starts no readiness
\* check and no transaction.
C16_PausedWatcherOffBus ==
    [][watchState = "PAUSE" => ~WatcherStartsBusUse]_vars

\* powerUp has returned
PowerUpReturned == pc["c"] = "idle" /\ cop = "powerUp"

\* C17: powerUp writes the clock low holding the bus lock; when it has
\* returned the watcher state is Running, setConfig has run a transaction
\* exactly if the held gain is not 128, and the last sequence on the bus has
\* left the chip with the pulse count of the held gain (25 for 128, the reset
\* default, and for 32; 27 for 64).
C17_PowerUpReappliesConfig ==
    /\ [][(pc["c"] = "pu_low" /\ pc'["c"] # "pu_low") =>
             commLock = "c" /\ clock' = 0]_vars
    /\ [](PowerUpReturned =>
            /\ watchState = "NORMAL"
            /\ (gain # 128) <=> (tx["c"].pulses > 0)
            /\ <<channel, gain>> \in ValidPairs
            /\ chipPulses = CASE gain = 128 -> 25 [] gain = 32 -> 25 [] gain = 64 -> 27)

\* powerUp has returned on a driver holding (A, 64), the chip left at 27 pulses
C17_Witness ==
    /\ PowerUpReturned
    /\ gain = 64
    /\ tx["c"].pulses = 27
    /\ chipPulses = 27

\* C18: a begin that cannot open the chip or claim a pin ends with
\* ResourceError having written no line, cycled no power, run no
\* transaction and started no watcher, the watcher state still NONE; a begin
\* that can goes through power-down, power-up and setConfig of the held pair
\* in that order and starts the watcher only then, once.
C18_BeginFailsCleanOrStartsInOrder ==
    /\ pc["c"] = "failed" =>
         /\ cres = "ResourceError"
         /\ gpio # "open" /\ clock = 0 /\ chipOn
         /\ tx["c"] = TxIdle /\ commLock = "free"
         /\ watchState = "NONE" /\ pc["w"] = "w_none"
    /\ pc["c"] = "b_up" =>
         watchState = "PAUSE" /\ ~chipOn /\ clock = 1 /\ tx["c"].pulses = 0
    /\ pc["c"] = "b_cfg" =>
         watchState = "NORMAL" /\ chipOn /\ clock = 0 /\ tx["c"].pulses = 0
    /\ pc["c"] = "b_start" =>
         /\ watchState = "NORMAL" /\ chipOn
         /\ tx["c"].data = 24 /\ tx["c"].g = gain
         /\ <<channel, gain>> = <<arg.c, arg.g>>
    /\ (cop \in {"none", "begin"} /\ pc["c"] \notin {"idle", "destroyed"}) =>
         pc["w"] = "w_none"
    /\ pc["c"] = "idle" => pc["w"] # "w_none"

\* begin has failed on a pin claim after the chip was opened
C18_Witness ==
    /\ pc["c"] = "failed"
    /\ cop = "begin"
    /\ cres = "ResourceError"
    /\ gpio = "chip"

\* C19: once the watcher state is END it never takes another value, and
\* under fair scheduling of the watcher a started watcher then leaves its
\* loop.
C19_WatcherLeavesLoop ==
    /\ [][watchState = "END" => watchState' = "END"]_vars
    /\ (watchState = "END" /\ pc["w"] # "w_none") ~> (pc["w"] = "w_exit")

\* the destructor may be called: no other call is running
DestructorCallable == pc["c"] = "idle" /\ \A r \in Readers : pc[r] = "idle"

\* C20: shutdown does not wait for the watcher: wherever the watcher is,
\* the destructor sets END and releases the pins at once, and only after
\* that does the watcher use a released line.
C20_ShutdownDoesNotWait ==
    /\ DestructorCallable => ENABLED Destructor
    /\ gpio = "released" => watchState = "END" /\ pc["c"] = "destroyed"
    /\ lateIO => gpio = "released"

\* the watcher, in a transaction it began before the release, has clocked
\* the bus after it
C20_Witness ==
    /\ gpio = "released"
    /\ lateIO
    /\ pc["w"] = "tx_pulse"

\* the lock a thread is about to take: "comm", "ready" or "none"
LockAwaited(t) ==
    IF pc[t] \in {"tx_lock", "pd_lock", "pu_lock"} THEN "comm"
    ELSE IF pc[t] \in {"w_lock", "gv_lock", "gv_woken"} THEN "ready"
    ELSE "none"

\* the thread a thread waits for: the holder of the lock it is about to take
WaitsOn(t) == IF LockAwaited(t) = "comm" THEN commLock ELSE readyLock

\* the thread cannot go on: the lock it is about to take is held
Blocked(t) == LockAwaited(t) # "none" /\ WaitsOn(t) # "free"

\* one step of thread t's own code (but for the byte step of a transaction,
\* whose only condition is the thread's position)
ThreadStep(t) ==
    \/ t \in BusThreads /\ (TxLock(t) \/ TxPulse(t))
    \/ t = "w" /\ Watcher
    \/ t = "c" /\ (Startup \/ PowerDown \/ PowerUp \/ SetConfig \/ TestTiming)
    \/ t \in Readers /\
         (GvLock(t) \/ GvWait(t) \/ GvTimeout(t) \/ GvRelock(t) \/ GvReturn(t))

\* the watcher's three sleeps
WatcherSleeps == pc["w"] \in {"w_sleepNotReady", "w_sleepSaturated", "w_sleepPoll"}

\* C21: no threads wait on each other for ever: a thread kept from a lock
\* waits for another thread, which itself either can go on or waits for a
\* third that can; a thread that holds a lock and is not kept from another
\* always has a step to take; a caller blocked in getValue always has its
\* timeout to leave by. Only the watcher holds the ready lock and the bus
\* lock together, and it never holds the bus lock without the ready lock
\* (it takes the ready lock first); it holds neither while it sleeps.
C21_DeadlockFree ==
    /\ \A t \in Threads :
         /\ Blocked(t) =>
              /\ WaitsOn(t) # t
              /\ Blocked(WaitsOn(t)) =>
                   /\ WaitsOn(WaitsOn(t)) \notin {t, WaitsOn(t)}
                   /\ ~Blocked(WaitsOn(WaitsOn(t)))
         /\ ((commLock = t \/ readyLock = t) /\ ~Blocked(t)) =>
              (pc[t] = "tx_byte" \/ ENABLED ThreadStep(t))
         /\ (commLock = t /\ readyLock = t) => t = "w"
    /\ \A r \in Readers : pc[r] = "gv_wait" => ENABLED GvTimeout(r)
    /\ commLock = "w" => readyLock = "w"
    /\ WatcherSleeps => (readyLock # "w" /\ commLock # "w")

\* the longest chain of waiting: a getValue caller waits for the ready lock,
\* held by the watcher, which waits for the bus lock, held by the calling
\* thread inside powerDown
C21_Witness ==
    /\ \E r \in Readers : pc[r] = "gv_lock"
    /\ readyLock = "w" /\ pc["w"] = "tx_lock"
    /\ commLock = "c" /\ pc["c"] = "pd_high"

====
